---------------------------- MODULE Spec2Model ----------------------------
(***************************************************************************)
(* The IGDB client (class IGDBService): OAuth2 client-credentials token    *)
(* with a stored expiry, a request cache keyed by endpoint and query, and  *)
(* the convenience query methods built on makeRequest.                     *)
(*                                                                         *)
(* Every async method is split where the code awaits the network: the      *)
(* synchronous part up to the first axios.post is one step, the            *)
(* continuation after each response is another.  Two call slots (Callers)  *)
(* let two invocations be in flight at once; the clock (Date.now()) is the *)
(* variable now, in milliseconds.                                          *)
(***************************************************************************)
EXTENDS Integers, Sequences, FiniteSets, TLC

(***************************************************************************)
(* Program constants.                                                      *)
(***************************************************************************)
CACHE_DURATION == 5 * 60 * 1000
TOKEN_TIMEOUT == 10000
DATA_TIMEOUT == 15000
EXPIRY_BUFFER == 60000
MAX_LIMIT == 50
DEFAULT_LIMIT == 20

(***************************************************************************)
(* Bounds of the model.                                                    *)
(***************************************************************************)
MaxCalls == 2
MaxTicks == 2

Callers == {"A", "B"}
\* Clock advances, in ms: one within both request timeouts, one long.
Steps == {10000, 300000}
\* expires_in values (seconds) the identity provider may report.
Lifetimes == {5, 360}
\* Response bodies of the data endpoint: JSON arrays of records.
Payloads == {<< >>, <<"g1", "g2">>}
\* Failures of a data request: error.response?.status (0: no response was
\* received) and error.code.
Failures ==
    {[status |-> 429, code |-> "ERR_BAD_REQUEST"],
     [status |-> 401, code |-> "ERR_BAD_REQUEST"],
     [status |-> 500, code |-> "ERR_BAD_RESPONSE"],
     [status |-> 0, code |-> "ECONNABORTED"],
     [status |-> 0, code |-> "ERR_NETWORK"]}

(***************************************************************************)
(* JavaScript values.  A string is a sequence of one-character strings; a  *)
(* number is NaN or a multiple of one half, held as twice its value.       *)
(***************************************************************************)
Num(t) == [nan |-> FALSE, twice |-> t]
NaN == [nan |-> TRUE, twice |-> 0]
NoNum == Num(0)

\* An invocation of a public method, by its method and arguments: endpoint
\* and str (the query) for makeCustomRequest, str for a search text or a
\* slug, num for an id.
Req(method, str, num, limit) ==
    [method |-> method, str |-> str, num |-> num, limit |-> limit,
     endpoint |-> << >>]

\* No invocation.
NoReq == Req("none", << >>, NoNum, 0)

\* Characters String.prototype.trim removes (those the inputs use).
Whitespace == {" ", "\t"}

RECURSIVE trimStart(_)
trimStart(s) ==
    IF s # << >> /\ Head(s) \in Whitespace THEN trimStart(Tail(s)) ELSE s

RECURSIVE trimEnd(_)
trimEnd(s) ==
    IF s # << >> /\ s[Len(s)] \in Whitespace
    THEN trimEnd(SubSeq(s, 1, Len(s) - 1))
    ELSE s

\* A trim that removes nothing.
trimNone(s) == s

\* String.prototype.trim
trim(s) == trimEnd(trimStart(s))

\* !s for a string: only the empty string is falsy.
NotString(s) == s = << >>

\* !n for a number: 0 and NaN are falsy.
NotNumber(n) == n.nan \/ n.twice = 0

\* n <= 0 (false for NaN).
LeqZero(n) == ~n.nan /\ n.twice <= 0

\* Number.isInteger
IsInteger(n) == ~n.nan /\ n.twice % 2 = 0

\* `${n}` for a number.
numToString(n) ==
    IF n.nan THEN "NaN"
    ELSE LET a == IF n.twice < 0 THEN -n.twice ELSE n.twice
             sign == IF n.twice < 0 THEN "-" ELSE ""
         IN  sign \o ToString(a \div 2) \o (IF a % 2 = 1 THEN ".5" ELSE "")

\* Math.min on integers.
Min(a, b) == IF a < b THEN a ELSE b

\* An array is truthy in JavaScript, the empty array included.
Truthy(data) == Len(data) >= 0


(***************************************************************************)
(* Inputs the callers draw from.                                           *)
(***************************************************************************)
\* "", " \t", "z", " z"
Strings == {<< >>, <<" ", "\t">>, <<"z">>, <<" ", "z">>}
\* NaN, -5, 0, 1, 1.5
Ids == {NaN, Num(-10), Num(0), Num(2), Num(3)}
Limits == {DEFAULT_LIMIT, 1000}
\* (endpoint, query) pairs handed to makeCustomRequest.
CustomRequests == {<< <<"e">>, <<":", "q">> >>, << <<"e", ":">>, <<"q">> >>}
\* The ids the callers of the main specification use.
CoreIds == {Num(0), Num(2)}

(***************************************************************************)
(* Query texts.  A template literal is the sequence of its fixed parts     *)
(* (one element each) and its interpolated values.                         *)
(***************************************************************************)
SearchFields ==
    "fields name,slug,summary,storyline,rating,rating_count,first_release_date,cover.url,genres.name,platforms.name;"
FullFields ==
    "fields name,slug,summary,storyline,rating,rating_count,first_release_date,cover.url,genres.name,platforms.name,screenshots.url,videos.video_id,age_ratings.category,age_ratings.rating,game_modes.name,player_perspectives.name,websites.category,websites.url,similar_games.name,similar_games.cover.url,dlcs.name,dlcs.cover.url,expansions.name,expansions.cover.url,standalone_expansions.name,standalone_expansions.cover.url;"

\* The limit written as it was passed.
clampLimitNone(limit) == limit

\* Math.min(limit, 50)
clampLimit(limit) == Min(limit, MAX_LIMIT)

searchQuery(query, limit) ==
    <<SearchFields,
      "where version_parent = null & category = 0 & name ~ *\"">>
        \o query
        \o <<"\"*; limit ", ToString(clampLimit(limit)), "; sort rating desc;">>

popularQuery(limit) ==
    <<FullFields,
      "where rating_count > 100 & version_parent = null & category = 0; sort rating desc; limit ",
      ToString(clampLimit(limit)), ";">>

byIdQuery(id) == <<FullFields, "where id = ", numToString(id), ";">>

bySlugQuery(slug) == <<FullFields, "where slug = \"">> \o slug \o <<"\";">>

listQuery == <<"fields name;", "sort name asc;", "limit 50;">>

byGenreQuery(genreId, limit) ==
    <<FullFields, "where genres = ", numToString(genreId),
      " & version_parent = null & category = 0; sort rating desc; limit ",
      ToString(clampLimit(limit)), ";">>

byPlatformQuery(platformId, limit) ==
    <<FullFields, "where platforms = ", numToString(platformId),
      " & version_parent = null & category = 0; sort rating desc; limit ",
      ToString(clampLimit(limit)), ";">>

\* `${endpoint}:${query}`
getCacheKey(endpoint, query) == endpoint \o <<":">> \o query

(***************************************************************************)
(* State.                                                                  *)
(***************************************************************************)
VARIABLES
    clientId,       \* this.clientId
    clientSecret,   \* this.clientSecret
    accessToken,    \* this.accessToken (NoToken: null)
    tokenExpiry,    \* this.tokenExpiry
    requestCache,   \* this.requestCache: key -> [data, timestamp]
    now,            \* Date.now()
    call,           \* per caller: the invocation in progress or last finished
    calls,          \* invocations begun so far
    ticks,          \* clock advances so far
    issued,         \* tokens the identity provider has issued so far
    cleared,        \* keys dropped by clearCache() and not stored again since
    origin          \* key -> the request whose response the entry holds

svc == <<clientId, clientSecret, accessToken, tokenExpiry, requestCache>>
vars == <<clientId, clientSecret, accessToken, tokenExpiry, requestCache,
          now, call, calls, ticks, issued, cleared, origin>>

StartTime == 1000 * 1000

NoToken == [id |-> 0, expiresIn |-> 0]
\* A caller's record: pc is "idle", "awaitToken", "awaitData" or "done" (the
\* promise has settled and the caller looks at the outcome).  token is the
\* token the data request carries, sentAt when the request in flight was
\* sent, started when the method was called; nTok and nData count the token
\* exchanges and data requests of the invocation; kind, status, code, shape,
\* val and cached describe how it ended (val of an error: what its message
\* interpolates); overtaken tells that clearCache() ran while the data
\* request was in flight.
NoCall ==
    [status |-> 0, code |-> "", endpoint |-> << >>, query |-> << >>,
     pc |-> "idle", req |-> NoReq, token |-> NoToken, sentAt |-> 0,
     started |-> 0, nTok |-> 0, nData |-> 0, kind |-> "none",
     shape |-> "none", val |-> << >>, cached |-> FALSE, overtaken |-> FALSE]

NoEntry == [data |-> << >>, null |-> TRUE]
EmptyMap == [k \in {} |-> 0]

Init ==
    /\ clientId \in {<< >>, <<"id">>}
    /\ clientSecret \in {<< >>, <<"secret">>}
    /\ accessToken = NoToken
    /\ tokenExpiry = 0
    /\ requestCache = EmptyMap
    /\ now = StartTime
    /\ call = [c \in Callers |-> NoCall]
    /\ calls = 0
    /\ ticks = 0
    /\ issued = 0
    /\ cleared = {}
    /\ origin = EmptyMap

(***************************************************************************)
(* Synchronous helpers of the class.                                       *)
(***************************************************************************)
\* isConfigured(): !!(this.clientId && this.clientSecret)
isConfigured == ~NotString(clientId) /\ ~NotString(clientSecret)

\* getCacheStats()
getCacheStats ==
    [size |-> Cardinality(DOMAIN requestCache), keys |-> DOMAIN requestCache]

\* getCachedData with the window taken in seconds instead of milliseconds.
getCachedDataSeconds(cacheKey) ==
    IF /\ cacheKey \in DOMAIN requestCache
       /\ now - requestCache[cacheKey].timestamp < 5 * 60
    THEN [data |-> requestCache[cacheKey].data, null |-> FALSE]
    ELSE [data |-> << >>, null |-> TRUE]

\* getCachedData serving an entry that is exactly CACHE_DURATION old.
getCachedDataInclusive(cacheKey) ==
    IF /\ cacheKey \in DOMAIN requestCache
       /\ now - requestCache[cacheKey].timestamp <= CACHE_DURATION
    THEN [data |-> requestCache[cacheKey].data, null |-> FALSE]
    ELSE [data |-> << >>, null |-> TRUE]

\* getCachedData(cacheKey): the entry's data while younger than
\* CACHE_DURATION, else null.
getCachedData(cacheKey) ==
    IF /\ cacheKey \in DOMAIN requestCache
       /\ now - requestCache[cacheKey].timestamp < CACHE_DURATION
    THEN [data |-> requestCache[cacheKey].data, null |-> FALSE]
    ELSE NoEntry

\* A setCachedData that also evicts the entries that have expired.
setCachedDataPruning(cacheKey, data) ==
    [k \in {j \in DOMAIN requestCache :
              now - requestCache[j].timestamp < CACHE_DURATION}
            \cup {cacheKey} |->
        IF k = cacheKey THEN [data |-> data, timestamp |-> now]
        ELSE requestCache[k]]

\* setCachedData(cacheKey, data): the map after the set.
setCachedData(cacheKey, data) ==
    [k \in DOMAIN requestCache \cup {cacheKey} |->
        IF k = cacheKey THEN [data |-> data, timestamp |-> now]
        ELSE requestCache[k]]

\* The credentials test with && for ||: only both missing count.
credentialsMissingBoth == NotString(clientId) /\ NotString(clientSecret)

\* The first test of getAccessToken: the credentials are missing.
credentialsMissing == NotString(clientId) \/ NotString(clientSecret)

\* The held-token test without the comparison with the expiry.
tokenUsableIgnoringExpiry == accessToken # NoToken

\* The second test of getAccessToken: the held token is still usable.
tokenUsable == accessToken # NoToken /\ now < tokenExpiry

\* The expiry stored with a token reported to live expires_in seconds.
newExpiry(expires_in) == now + (expires_in * 1000) - EXPIRY_BUFFER

\* The array handed back as it is.
firstOrNullArray(games) == [shape |-> "array", val |-> games]

\* games.length > 0 ? games[0] : null
firstOrNull(games) ==
    IF Len(games) > 0
    THEN [shape |-> "record", val |-> <<games[1]>>]
    ELSE [shape |-> "null", val |-> << >>]

SingleMethods == {"getGameById", "getGameBySlug"}

\* What the public method hands back once makeRequest has resolved to data.
returned(method, data) ==
    IF method \in SingleMethods THEN firstOrNull(data)
    ELSE [shape |-> "array", val |-> data]

(***************************************************************************)
(* Error kinds, by the message the code throws:                            *)
(*   ValidationError      'Search query cannot be empty', 'Invalid game    *)
(*                        ID', 'Game slug cannot be empty', 'Invalid genre *)
(*                        ID', 'Invalid platform ID'                       *)
(*   ConfigurationError   'IGDB credentials not configured. ...'           *)
(*   AuthenticationError  'Failed to authenticate with IGDB. ...' (token   *)
(*                        exchange), 'Authentication failed. ...' (401)    *)
(*   RateLimitError       'IGDB rate limit exceeded. ...'                  *)
(*   TimeoutError         'Request timeout. Please try again.'             *)
(*   UpstreamError        'Failed to fetch data from IGDB ${endpoint}. ...'*)
(***************************************************************************)
ErrorKinds == {"ValidationError", "ConfigurationError", "AuthenticationError",
               "RateLimitError", "TimeoutError", "UpstreamError"}

\* A catch block without the branch for error.code === 'ECONNABORTED'.
classifyWithoutTimeout(status, code) ==
    IF status = 429 THEN "RateLimitError"
    ELSE IF status = 401 THEN "AuthenticationError"
    ELSE "UpstreamError"

\* The catch block of makeRequest: the kind of error thrown for a failed
\* data request (error.response?.status, error.code).
classify(status, code) ==
    IF status = 429 THEN "RateLimitError"
    ELSE IF status = 401 THEN "AuthenticationError"
    ELSE IF code = "ECONNABORTED" THEN "TimeoutError"
    ELSE "UpstreamError"

\* What the message of an error of the given kind interpolates: the
\* endpoint for an UpstreamError, nothing for the others.
named(kind, endpoint) == IF kind = "UpstreamError" THEN endpoint ELSE << >>

\* A catch block that never clears the token.
clearsTokenNever(status, code) == FALSE

\* A catch block that clears the token on a 429 as well.
clearsTokenOnRateLimit(status, code) == status = 429 \/ status = 401

\* Whether the catch block clears the held token.
clearsToken(status, code) == status # 429 /\ status = 401

(***************************************************************************)
(* The steps of a call.                                                    *)
(***************************************************************************)
\* A caller may begin an invocation.
\* No caller is looking at a settled promise: the outcome of an invocation
\* is observed, and its record put away, before the next step is told.
quiet == \A c \in Callers : call[c].pc # "done"

\* Sequential invocations are told in slot "A"; slot "B" holds an invocation
\* made while another is in flight.
mayBegin(c) ==
    /\ quiet
    /\ call[c].pc = "idle"
    /\ calls < MaxCalls
    /\ c = "B" => call["A"].pc # "idle"

\* The invocation of caller c fails with an error of the given kind.
failed(rec, kind) ==
    [rec EXCEPT !.pc = "done", !.kind = kind, !.shape = "error", !.val = << >>]

\* The invocation of caller c resolves to what its method returns for data.
resolved(rec, data) ==
    [rec EXCEPT !.pc = "done", !.kind = "ok",
                !.shape = returned(rec.req.method, data).shape,
                !.val = returned(rec.req.method, data).val]

\* A public method throws before it calls makeRequest.
throwValidation(c, r) ==
    /\ mayBegin(c)
    /\ call' = [call EXCEPT ![c] =
                  failed([NoCall EXCEPT !.req = r, !.started = now],
                         "ValidationError")]
    /\ calls' = calls + 1
    /\ UNCHANGED <<svc, now, ticks, issued, cleared, origin>>

\* makeRequest up to its first await on the network, getAccessToken's
\* synchronous part included.
makeRequest(c, r, endpoint, query) ==
    LET cacheKey == getCacheKey(endpoint, query)
        cachedData == getCachedData(cacheKey)
        begun == [NoCall EXCEPT !.req = r, !.endpoint = endpoint,
                                !.query = query, !.started = now]
    IN  /\ mayBegin(c)
        /\ calls' = calls + 1
        /\ call' = [call EXCEPT ![c] =
              IF ~cachedData.null /\ Truthy(cachedData.data)
              THEN resolved([begun EXCEPT !.cached = TRUE], cachedData.data)
              ELSE IF credentialsMissing
              THEN failed(begun, "ConfigurationError")
              ELSE IF tokenUsable
              THEN [begun EXCEPT !.pc = "awaitData", !.token = accessToken,
                                 !.nData = 1, !.sentAt = now]
              ELSE [begun EXCEPT !.pc = "awaitToken", !.nTok = 1,
                                 !.sentAt = now]]
        /\ UNCHANGED <<svc, now, ticks, issued, cleared, origin>>

\* A getAccessToken that, when its exchange returns, keeps a usable token
\* another call has stored meanwhile and returns that one.
tokenResponseKeepHeld(c, expires_in) ==
    LET keep == accessToken # NoToken /\ now < tokenExpiry
        t == IF keep THEN accessToken
             ELSE [id |-> issued + 1, expiresIn |-> expires_in]
    IN  /\ quiet
        /\ call[c].pc = "awaitToken"
        /\ accessToken' = t
        /\ tokenExpiry' = IF keep THEN tokenExpiry ELSE newExpiry(expires_in)
        /\ issued' = issued + 1
        /\ call' = [call EXCEPT ![c] =
              [@ EXCEPT !.pc = "awaitData", !.token = t, !.nData = @ + 1,
                        !.sentAt = now]]
        /\ UNCHANGED <<clientId, clientSecret, requestCache, now, calls, ticks,
                       cleared, origin>>

\* The token exchange succeeds: getAccessToken stores the token and its
\* expiry and returns; makeRequest posts the query with that token.
tokenResponse(c, expires_in) ==
    LET t == [id |-> issued + 1, expiresIn |-> expires_in]
    IN  /\ quiet
        /\ call[c].pc = "awaitToken"
        /\ accessToken' = t
        /\ tokenExpiry' = newExpiry(expires_in)
        /\ issued' = issued + 1
        /\ call' = [call EXCEPT ![c] =
              [@ EXCEPT !.pc = "awaitData", !.token = t, !.nData = @ + 1,
                        !.sentAt = now]]
        /\ UNCHANGED <<clientId, clientSecret, requestCache, now, calls, ticks,
                       cleared, origin>>

\* A catch block of getAccessToken that tells the failures apart as the
\* catch block of makeRequest does.
tokenErrorClassified(c, status, code) ==
    /\ quiet
    /\ call[c].pc = "awaitToken"
    /\ call' = [call EXCEPT ![c] =
          [failed(@, classify(status, code)) EXCEPT !.status = status,
                                                    !.code = code]]
    /\ UNCHANGED <<svc, now, calls, ticks, issued, cleared, origin>>

\* The token exchange fails (transport error, timeout, non-2xx status): the
\* catch block of getAccessToken throws the same error for all of them.
tokenError(c, status, code) ==
    /\ quiet
    /\ call[c].pc = "awaitToken"
    /\ call' = [call EXCEPT ![c] =
          [failed(@, "AuthenticationError") EXCEPT !.status = status,
                                                   !.code = code]]
    /\ UNCHANGED <<svc, now, calls, ticks, issued, cleared, origin>>

\* The data request succeeds: the body is cached and returned.
dataResponse(c, data) ==
    LET cacheKey == getCacheKey(call[c].endpoint, call[c].query)
    IN  /\ quiet
        /\ call[c].pc = "awaitData"
        /\ requestCache' = setCachedData(cacheKey, data)
        /\ call' = [call EXCEPT ![c] = resolved(@, data)]
        /\ cleared' = cleared \ {cacheKey}
        /\ origin' = [k \in DOMAIN origin \cup {cacheKey} |->
              IF k = cacheKey
              THEN [endpoint |-> call[c].endpoint, data |-> data,
                    query |-> call[c].query, req |-> call[c].req,
                    started |-> call[c].started, nData |-> call[c].nData]
              ELSE origin[k]]
        /\ UNCHANGED <<clientId, clientSecret, accessToken, tokenExpiry, now,
                       calls, ticks, issued>>

\* A catch block that does what its comment says on a 401 ("Clear token and
\* retry once"): the call goes back to the token exchange.
dataErrorRetry(c, status, code) ==
    /\ quiet
    /\ call[c].pc = "awaitData"
    /\ IF status = 401
       THEN /\ accessToken' = NoToken
            /\ tokenExpiry' = 0
            /\ call' = [call EXCEPT ![c] =
                  IF @.nTok < 2
                  THEN [@ EXCEPT !.pc = "awaitToken", !.nTok = @ + 1,
                                 !.sentAt = now]
                  ELSE [failed(@, classify(status, code))
                           EXCEPT !.status = status, !.code = code]]
       ELSE /\ UNCHANGED <<accessToken, tokenExpiry>>
            /\ call' = [call EXCEPT ![c] =
                  [failed(@, classify(status, code))
                      EXCEPT !.status = status, !.code = code]]
    /\ UNCHANGED <<clientId, clientSecret, requestCache, now, calls, ticks,
                   issued, cleared, origin>>

\* The data request fails.
dataError(c, status, code) ==
    /\ quiet
    /\ call[c].pc = "awaitData"
    /\ IF clearsToken(status, code)
       THEN accessToken' = NoToken /\ tokenExpiry' = 0
       ELSE UNCHANGED <<accessToken, tokenExpiry>>
    /\ call' = [call EXCEPT ![c] =
          [failed(@, classify(status, code))
              EXCEPT !.status = status, !.code = code,
                     !.val = named(classify(status, code), call[c].endpoint)]]
    /\ UNCHANGED <<clientId, clientSecret, requestCache, now, calls, ticks,
                   issued, cleared, origin>>

\* The caller has seen the outcome; the record is put away.
settle(c) ==
    /\ call[c].pc = "done"
    /\ call' = [call EXCEPT ![c] = NoCall]
    /\ UNCHANGED <<svc, now, calls, ticks, issued, cleared, origin>>

(***************************************************************************)
(* The public methods.                                                     *)
(***************************************************************************)
makeCustomRequest(c, endpoint, query) ==
    makeRequest(c, [Req("makeCustomRequest", query, NoNum, 0)
                       EXCEPT !.endpoint = endpoint],
                endpoint, query)

searchGames(c, query, limit) ==
    LET r == Req("searchGames", query, NoNum, limit)
    IN  IF NotString(trim(query)) THEN throwValidation(c, r)
        ELSE makeRequest(c, r, <<"games">>, searchQuery(query, limit))

getPopularGames(c, limit) ==
    makeRequest(c, Req("getPopularGames", << >>, NoNum, limit), <<"games">>,
                popularQuery(limit))

getGameById(c, id) ==
    LET r == Req("getGameById", << >>, id, 0)
    IN  IF NotNumber(id) \/ LeqZero(id) THEN throwValidation(c, r)
        ELSE makeRequest(c, r, <<"games">>, byIdQuery(id))

getGameBySlug(c, slug) ==
    LET r == Req("getGameBySlug", slug, NoNum, 0)
    IN  IF NotString(trim(slug)) THEN throwValidation(c, r)
        ELSE makeRequest(c, r, <<"games">>, bySlugQuery(slug))

getGenres(c) ==
    makeRequest(c, Req("getGenres", << >>, NoNum, 0), <<"genres">>, listQuery)

getPlatforms(c) ==
    makeRequest(c, Req("getPlatforms", << >>, NoNum, 0), <<"platforms">>,
                listQuery)

getGamesByGenre(c, genreId, limit) ==
    LET r == Req("getGamesByGenre", << >>, genreId, limit)
    IN  IF NotNumber(genreId) \/ LeqZero(genreId) THEN throwValidation(c, r)
        ELSE makeRequest(c, r, <<"games">>, byGenreQuery(genreId, limit))

getGamesByPlatform(c, platformId, limit) ==
    LET r == Req("getGamesByPlatform", << >>, platformId, limit)
    IN  IF NotNumber(platformId) \/ LeqZero(platformId)
        THEN throwValidation(c, r)
        ELSE makeRequest(c, r, <<"games">>, byPlatformQuery(platformId, limit))

\* A clearCache that drops only the entries that have expired.
clearCacheExpired ==
    /\ quiet
    /\ requestCache # EmptyMap
    /\ requestCache' =
          [k \in {j \in DOMAIN requestCache :
                    now - requestCache[j].timestamp < CACHE_DURATION} |->
              requestCache[k]]
    /\ cleared' = cleared \cup DOMAIN requestCache
    /\ origin' = EmptyMap
    /\ UNCHANGED <<clientId, clientSecret, accessToken, tokenExpiry, now,
                   call, calls, ticks, issued>>

\* clearCache(): this.requestCache.clear().  On an empty cache it changes
\* nothing, and is not told.
clearCache ==
    /\ quiet
    /\ requestCache # EmptyMap
    /\ requestCache' = EmptyMap
    /\ cleared' = cleared \cup DOMAIN requestCache
    /\ origin' = EmptyMap
    /\ call' = [c \in Callers |->
                  [call[c] EXCEPT !.overtaken = call[c].pc = "awaitData"]]
    /\ UNCHANGED <<clientId, clientSecret, accessToken, tokenExpiry, now,
                   calls, ticks, issued>>

\* Time passes.  A request in flight ends, with a response or with axios's
\* timeout, no later than its timeout after it was sent.
timeoutOf(pcv) == IF pcv = "awaitToken" THEN TOKEN_TIMEOUT ELSE DATA_TIMEOUT

tick(d) ==
    /\ quiet
    /\ ticks < MaxTicks
    /\ \A c \in Callers :
          call[c].pc \in {"awaitToken", "awaitData"} =>
              now + d - call[c].sentAt <= timeoutOf(call[c].pc)
    /\ now' = now + d
    /\ ticks' = ticks + 1
    /\ UNCHANGED <<svc, call, calls, issued, cleared, origin>>

\* The environment's steps and the continuations of a call in flight.
proceed(c) ==
    \/ \E l \in Lifetimes : tokenResponse(c, l)
    \/ \E f \in Failures : tokenError(c, f.status, f.code)
    \/ \E data \in Payloads : dataResponse(c, data)
    \/ \E f \in Failures : dataError(c, f.status, f.code)
    \/ settle(c)

\* The client with two callers, which a custom request or a lookup by id
\* stands for every query method (all of them go through makeRequest).
Next ==
    \/ \E c \in Callers :
        \/ \E r \in CustomRequests : makeCustomRequest(c, r[1], r[2])
        \/ \E id \in CoreIds : getGameById(c, id)
        \/ proceed(c)
    \/ clearCache
    \/ \E d \in Steps : tick(d)

Spec == Init /\ [][Next]_vars

\* One caller, every public method, every input; the clock stands still
\* and the cache is not cleared.
NextInputs ==
    \/ \E r \in CustomRequests : makeCustomRequest("A", r[1], r[2])
    \/ \E q \in Strings, l \in Limits : searchGames("A", q, l)
    \/ \E l \in Limits : getPopularGames("A", l)
    \/ \E id \in Ids : getGameById("A", id)
    \/ \E slug \in Strings : getGameBySlug("A", slug)
    \/ getGenres("A")
    \/ getPlatforms("A")
    \/ \E id \in Ids, l \in Limits : getGamesByGenre("A", id, l)
    \/ \E id \in Ids, l \in Limits : getGamesByPlatform("A", id, l)
    \/ proceed("A")

SpecInputs == Init /\ [][NextInputs]_vars

(***************************************************************************)
(* Vocabulary of the properties.                                           *)
(***************************************************************************)
\* Caller c calls a public method in this step.
begins(c) == call[c].pc = "idle" /\ call'[c].pc # "idle"

\* The cache key of caller c's invocation.
keyOf(c) == getCacheKey(call[c].endpoint, call[c].query)

\* The invocation of caller c is waiting for the network.
inFlight(c) == call[c].pc \in {"awaitToken", "awaitData"}

\* The invocation of caller c got past the method's validation of its
\* arguments.
accepted(c) == call[c].pc # "idle" /\ call[c].kind # "ValidationError"

\* The methods that take a text, and those that take an id.
TextMethods == {"searchGames", "getGameBySlug"}
IdMethods == {"getGameById", "getGamesByGenre", "getGamesByPlatform"}

\* The text of request r is empty or only whitespace.
blankText(r) ==
    r.method \in TextMethods /\ \A i \in 1..Len(r.str) : r.str[i] \in {" ", "\t"}

\* The id of request r is a positive integer.
positiveInteger(r) ==
    r.method \in IdMethods /\ IsInteger(r.num) /\ r.num.twice > 0

\* The id of request r is NaN, zero or negative.
notPositive(r) ==
    r.method \in IdMethods /\ (r.num.nan \/ r.num.twice <= 0)

(***************************************************************************)
(* C1.  Two calls of the same method with the same arguments, the second   *)
(* made less than 5 minutes after the first: when the first call fetched   *)
(* its payload from the data endpoint (origin holds it: its response is    *)
(* the entry of the key, not cleared since), the second call resolves at   *)
(* once from the cache, with what the method returns for that same         *)
(* payload, and sends nothing, so that the two calls issue exactly one     *)
(* data request in total.                                                  *)
(***************************************************************************)
C1_SecondCallFromCache ==
    [][\A c \in Callers :
          LET k == getCacheKey(call'[c].endpoint, call'[c].query)
          IN  (/\ begins(c)
               /\ accepted(c)'
               /\ k \in DOMAIN origin
               /\ origin[k].req = call'[c].req
               /\ now - origin[k].started < CACHE_DURATION)
              => /\ call'[c].pc = "done"
                 /\ call'[c].kind = "ok"
                 /\ call'[c].cached
                 /\ call'[c].nTok = 0
                 /\ origin[k].nData + call'[c].nData = 1
                 /\ call'[c].shape = returned(call'[c].req.method, origin[k].data).shape
                 /\ call'[c].val = returned(call'[c].req.method, origin[k].data).val
                 /\ UNCHANGED <<requestCache, accessToken, tokenExpiry>>]_vars

\* A second call served from the cache some time after the first was made.
C1_Witness ==
    \E c \in Callers :
        /\ call[c].pc = "done"
        /\ call[c].cached
        /\ call[c].val # << >>
        /\ keyOf(c) \in DOMAIN origin
        /\ origin[keyOf(c)].req = call[c].req
        /\ origin[keyOf(c)].started < call[c].started
        /\ call[c].started - origin[keyOf(c)].started < CACHE_DURATION

(***************************************************************************)
(* C2.  A cache entry is served only while now - storedAt < 5 minutes: a   *)
(* call whose key has an entry aged exactly 5 minutes or more is not       *)
(* answered from the cache but goes to the network (a token exchange when  *)
(* no usable token is held, the data request otherwise), and every call    *)
(* answered from the cache found an entry younger than 5 minutes.          *)
(***************************************************************************)
C2_ExpiredEntryGoesToNetwork ==
    [][\A c \in Callers :
          LET k == getCacheKey(call'[c].endpoint, call'[c].query)
          IN  /\ (/\ begins(c)
                  /\ accepted(c)'
                  /\ k \in DOMAIN requestCache
                  /\ now - requestCache[k].timestamp >= CACHE_DURATION)
                 => /\ inFlight(c)'
                    /\ ~call'[c].cached
                    /\ call'[c].nTok + call'[c].nData = 1
              /\ (begins(c) /\ call'[c].cached)
                 => /\ k \in DOMAIN requestCache
                    /\ now - requestCache[k].timestamp < CACHE_DURATION]_vars

\* A data request in flight for a key whose entry was exactly 5 minutes old
\* when the call was made.
C2_Witness ==
    \E c \in Callers :
        /\ call[c].pc = "awaitData"
        /\ keyOf(c) \in DOMAIN requestCache
        /\ call[c].started - requestCache[keyOf(c)].timestamp = CACHE_DURATION

C4_Unconfigured ==
    (clientId = << >> \/ clientSecret = << >>)
    => /\ ~isConfigured
       /\ issued = 0
       /\ accessToken = NoToken
       /\ requestCache = EmptyMap
       /\ \A c \in Callers :
             /\ ~inFlight(c)
             /\ call[c].nTok = 0
             /\ call[c].nData = 0
             /\ call[c].pc = "done"
                => \/ call[c].kind = "ConfigurationError"
                   \/ /\ call[c].kind = "ValidationError"
                      /\ blankText(call[c].req) \/ notPositive(call[c].req)

\* Only the secret is missing, and a search has failed with
\* ConfigurationError.
C4_Witness ==
    \E c \in Callers :
        /\ clientId # << >>
        /\ clientSecret = << >>
        /\ call[c].pc = "done"
        /\ call[c].req.method = "searchGames"
        /\ call[c].kind = "ConfigurationError"

(***************************************************************************)
(* C5.  clearCache() leaves getCacheStats().size = 0, and a query that was *)
(* cached before the clear goes to the network when it is made again (as   *)
(* long as no response for it has been stored since).                      *)
(***************************************************************************)
C5_ClearCacheEmpties ==
    [][/\ cleared' # cleared /\ cleared \subseteq cleared'
          => /\ getCacheStats'.size = 0
             /\ getCacheStats'.keys = {}
       /\ \A c \in Callers :
             (begins(c) /\ accepted(c)'
                /\ getCacheKey(call'[c].endpoint, call'[c].query) \in cleared)
             => /\ inFlight(c)'
                /\ ~call'[c].cached
                /\ call'[c].nTok + call'[c].nData = 1]_vars

\* A data request in flight for a key that clearCache() dropped while its
\* entry was still fresh.
C5_Witness ==
    \E c \in Callers :
        /\ call[c].pc = "awaitData"
        /\ keyOf(c) \in cleared
        /\ getCacheStats.size = 0
        /\ call[c].started = StartTime

(***************************************************************************)
(* C6.  A 429 response to a data request ends the call with RateLimitError *)
(* after its single data request, and handling it changes neither the      *)
(* cache (nothing is stored for the key) nor the held token.               *)
(***************************************************************************)
C6_RateLimitLeavesState ==
    [][\A c \in Callers :
          (call[c].pc = "awaitData" /\ call'[c].pc # "awaitData"
             /\ call'[c].status = 429)
          => /\ call'[c].pc = "done"
             /\ call'[c].kind = "RateLimitError"
             /\ call'[c].nData = 1
             /\ UNCHANGED <<requestCache, accessToken, tokenExpiry>>]_vars

\* A call ended by a 429: its key is not in the cache, the token is held.
C6_Witness ==
    \E c \in Callers :
        /\ call[c].pc = "done"
        /\ call[c].status = 429
        /\ call[c].kind = "RateLimitError"
        /\ keyOf(c) \notin DOMAIN requestCache
        /\ accessToken # NoToken

C8_TokenReuseAndExpiry ==
    [][\A c \in Callers :
          /\ (begins(c) /\ inFlight(c)')
             => IF accessToken # NoToken /\ now < tokenExpiry
                THEN /\ call'[c].pc = "awaitData"
                     /\ call'[c].token = accessToken
                     /\ call'[c].nTok = 0
                     /\ UNCHANGED <<accessToken, tokenExpiry, issued>>
                ELSE /\ call'[c].pc = "awaitToken"
                     /\ call'[c].nTok = 1
                     /\ call'[c].nData = 0
          /\ (call[c].pc = "awaitToken" /\ call'[c].pc = "awaitData")
             => /\ accessToken' # NoToken
                /\ accessToken' # accessToken
                /\ call'[c].token = accessToken'
                /\ tokenExpiry' = now + accessToken'.expiresIn * 1000 - 60000]_vars

\* A data request sent with the held token, some time after the token was
\* stored, without a token exchange.
C8_Witness ==
    \E c \in Callers :
        /\ call[c].pc = "awaitData"
        /\ call[c].nTok = 0
        /\ call[c].token = accessToken
        /\ accessToken # NoToken
        /\ call[c].started >
              tokenExpiry - accessToken.expiresIn * 1000 + EXPIRY_BUFFER
        /\ call[c].started < tokenExpiry

\* A call that throws before makeRequest: it ends at once with
\* ValidationError, no cache lookup has answered it, nothing was sent, and
\* token and cache are as they were.
rejects(c) ==
    /\ call'[c].pc = "done"
    /\ call'[c].kind = "ValidationError"
    /\ ~call'[c].cached
    /\ call'[c].nTok = 0
    /\ call'[c].nData = 0
    /\ UNCHANGED <<requestCache, accessToken, tokenExpiry, issued>>

(***************************************************************************)
(* C9.  getGameById, getGamesByGenre and getGamesByPlatform accept their   *)
(* id only when it is a positive integer; for every other value (0,        *)
(* negative, NaN, non-integer) the call ends with ValidationError before   *)
(* any cache lookup, token exchange or data request, token and cache       *)
(* unchanged.                                                              *)
(***************************************************************************)
C9_IdMustBePositiveInteger ==
    [][\A c \in Callers :
          (begins(c) /\ call'[c].req.method \in IdMethods)
          => IF positiveInteger(call'[c].req)
             THEN accepted(c)'
             ELSE rejects(c)]_vars

(***************************************************************************)
(* C10.  searchGames and getGameBySlug end with ValidationError whenever   *)
(* their text is empty or only whitespace, before any cache lookup, token  *)
(* exchange or data request, token and cache unchanged, whether or not the *)
(* client is configured; any other text passes the validation.             *)
(***************************************************************************)
C10_BlankTextRejected ==
    [][\A c \in Callers :
          (begins(c) /\ call'[c].req.method \in TextMethods)
          => IF blankText(call'[c].req)
             THEN rejects(c)
             ELSE accepted(c)']_vars

\* A whitespace-only search rejected by a configured client that holds a
\* token and a cached response.
C10_Witness ==
    \E c \in Callers :
        /\ call[c].pc = "done"
        /\ call[c].req.method = "searchGames"
        /\ call[c].req.str = <<" ", "\t">>
        /\ call[c].kind = "ValidationError"
        /\ isConfigured
        /\ accessToken # NoToken
        /\ requestCache # EmptyMap

(***************************************************************************)
(* C11.  getGameById and getGameBySlug never hand an array to the caller:  *)
(* when the request yields a non-empty list they return its first record,  *)
(* when it yields no record they return null and do not fail, whether the  *)
(* list came from the network or from the cache.                           *)
(***************************************************************************)
C11_SingleRecordOrNull ==
    \A c \in Callers :
        (/\ call[c].pc = "done"
         /\ call[c].kind = "ok"
         /\ call[c].req.method \in {"getGameById", "getGameBySlug"})
        => /\ keyOf(c) \in DOMAIN requestCache
           /\ call[c].shape # "array"
           /\ LET games == requestCache[keyOf(c)].data
              IN  IF Len(games) = 0
                  THEN call[c].shape = "null" /\ call[c].val = << >>
                  ELSE call[c].shape = "record" /\ call[c].val = <<games[1]>>

\* getGameBySlug answered from the cache with an empty list: null.
C11_Witness ==
    \E c \in Callers :
        /\ call[c].pc = "done"
        /\ call[c].req.method = "getGameBySlug"
        /\ call[c].cached
        /\ call[c].kind = "ok"
        /\ call[c].shape = "null"

\* The methods that take a limit.
LimitMethods ==
    {"searchGames", "getPopularGames", "getGamesByGenre", "getGamesByPlatform"}

\* The limit written in the query of a method that takes one: the value
\* interpolated after "limit ".
limitSent(q) == q[Len(q) - 1]

(***************************************************************************)
(* C12.  For every limit passed to searchGames, getPopularGames,           *)
(* getGamesByGenre or getGamesByPlatform, the limit written in the query   *)
(* is min(limit, 50): never more than 50.                                  *)
(***************************************************************************)
C12_LimitClamped ==
    \A c \in Callers :
        (call[c].req.method \in LimitMethods /\ call[c].query # << >>)
        => LET limit == call[c].req.limit
               sent == limitSent(call[c].query)
           IN  /\ sent = ToString(IF limit < 50 THEN limit ELSE 50)
               /\ \E n \in 0..50 : sent = ToString(n)

\* The data request of getGamesByGenre(1, 1000) has been sent with limit 50.
C12_Witness ==
    \E c \in Callers :
        /\ call[c].pc = "awaitData"
        /\ call[c].req.method = "getGamesByGenre"
        /\ call[c].req.limit = 1000
        /\ limitSent(call[c].query) = "50"

(***************************************************************************)
(* C13.  A failed data request is classified in a fixed order: status 429  *)
(* gives RateLimitError; otherwise status 401 gives AuthenticationError;   *)
(* otherwise a client-side timeout (code ECONNABORTED) gives TimeoutError; *)
(* anything else gives an UpstreamError whose message names the endpoint.  *)
(* Every failed data request ends with one of these four kinds, the cache  *)
(* is untouched, and the held token changes only in the 401 case, where it *)
(* is cleared.                                                             *)
(***************************************************************************)
C13_FailureClassified ==
    [][\A c \in Callers :
          (call[c].pc = "awaitData" /\ call'[c].pc = "done"
             /\ call'[c].kind # "ok")
          => LET st == call'[c].status
                 cd == call'[c].code
                 k  == call'[c].kind
             IN  /\ st = 429 => k = "RateLimitError"
                 /\ (st # 429 /\ st = 401) => k = "AuthenticationError"
                 /\ (st \notin {429, 401} /\ cd = "ECONNABORTED")
                       => k = "TimeoutError"
                 /\ (st \notin {429, 401} /\ cd # "ECONNABORTED")
                       => /\ k = "UpstreamError"
                          /\ call'[c].val = call[c].endpoint
                 /\ k \in {"RateLimitError", "AuthenticationError",
                           "TimeoutError", "UpstreamError"}
                 /\ <<accessToken, tokenExpiry>>' # <<accessToken, tokenExpiry>>
                       => st = 401
                 /\ st = 401 => accessToken' = NoToken /\ tokenExpiry' = 0
                 /\ UNCHANGED requestCache]_vars

\* A data request that timed out: TimeoutError, and the token is still held.
C13_Witness ==
    \E c \in Callers :
        /\ call[c].pc = "done"
        /\ call[c].nData = 1
        /\ call[c].code = "ECONNABORTED"
        /\ call[c].kind = "TimeoutError"
        /\ accessToken # NoToken

(***************************************************************************)
(* C14.  Any failure of the token exchange (transport error, timeout,      *)
(* non-2xx status) ends the call with AuthenticationError, never with      *)
(* TimeoutError, RateLimitError or UpstreamError; no data request is sent, *)
(* and the held token, its expiry and the cache are left as they were.     *)
(***************************************************************************)
C14_TokenExchangeFailure ==
    [][\A c \in Callers :
          (call[c].pc = "awaitToken" /\ call'[c].pc = "done")
          => /\ call'[c].kind = "AuthenticationError"
             /\ call'[c].nTok = 1
             /\ call'[c].nData = 0
             /\ UNCHANGED <<accessToken, tokenExpiry, requestCache>>]_vars

\* A token exchange that timed out while the other call's exchange had
\* stored a token: AuthenticationError, the token still held.
C14_Witness ==
    \E c \in Callers :
        /\ call[c].pc = "done"
        /\ call[c].nTok = 1
        /\ call[c].nData = 0
        /\ call[c].code = "ECONNABORTED"
        /\ call[c].kind = "AuthenticationError"
        /\ accessToken # NoToken

(***************************************************************************)
(* C15.  Two concurrent calls that both find the token missing or expired  *)
(* each perform their own token exchange (no single flight).  Whenever     *)
(* both exchanges succeed, in either order, each call sends its data       *)
(* request with the token of its own exchange, and the held token and      *)
(* expiry are those of the exchange that completed last: it overwrites     *)
(* what the first stored.                                                  *)
(***************************************************************************)
C15_NoSingleFlight ==
    [][\A c \in Callers : \A o \in Callers \ {c} :
          /\ (/\ begins(c) /\ inFlight(c)'
              /\ call[o].pc = "awaitToken"
              /\ ~(accessToken # NoToken /\ now < tokenExpiry))
             => /\ call'[c].pc = "awaitToken"
                /\ call'[c].nTok = 1
                /\ call'[o] = call[o]
          /\ (call[c].pc = "awaitToken" /\ call'[c].pc = "awaitData")
             => /\ accessToken'.id = issued + 1
                /\ call'[c].token = accessToken'
                /\ tokenExpiry' =
                      now + accessToken'.expiresIn * 1000 - EXPIRY_BUFFER
                /\ call'[o] = call[o]
                /\ call[o].pc = "awaitData" => call[o].token # accessToken']_vars

\* Both calls exchanged and sent their data requests; the call that began
\* first completed its exchange last, and its token is the one held.
C15_Witness ==
    /\ call["A"].pc = "awaitData" /\ call["A"].nTok = 1
    /\ call["B"].pc = "awaitData" /\ call["B"].nTok = 1
    /\ call["B"].token.id < call["A"].token.id
    /\ call["B"].token.expiresIn # call["A"].token.expiresIn
    /\ accessToken = call["A"].token
    /\ tokenExpiry = call["A"].sentAt + accessToken.expiresIn * 1000
                        - EXPIRY_BUFFER

\* The provider issues a token between the moment the exchange is sent and
\* the moment its response arrives, and counts the reported lifetime from
\* there.  For the token caller c has just received, the earliest issue is
\* the sending of c's exchange.
earliestIssueOfFetched(c) == call[c].sentAt

\* For the held token: it was stored when its response arrived, at
\* tokenExpiry - expires_in * 1000 + 60000, and its exchange had been sent
\* at most the exchange's timeout before.
earliestIssueOfHeld ==
    (tokenExpiry - accessToken.expiresIn * 1000 + EXPIRY_BUFFER)
        - TOKEN_TIMEOUT

\* Caller c sends its data request in this step with a token whose
\* provider-side lifetime cannot have elapsed.
sendsLiveToken(c) ==
    IF call[c].pc = "awaitToken"
    THEN now < earliestIssueOfFetched(c) + call'[c].token.expiresIn * 1000
    ELSE now < earliestIssueOfHeld + call'[c].token.expiresIn * 1000

\* Caller c sends its data request in this step.
sendsData(c) == call[c].pc # "awaitData" /\ call'[c].pc = "awaitData"

(***************************************************************************)
(* C16, as stated.  For every lifetime the provider reports, every data    *)
(* request the client sends carries a token whose provider-side lifetime   *)
(* (issue time + reported lifetime) has not elapsed when it is sent.       *)
(***************************************************************************)
C16_TokenNeverElapsed ==
    [][\A c \in Callers : sendsData(c) => sendsLiveToken(c)]_vars

(***************************************************************************)
(* C16, amended.  The same for every reported lifetime longer than the     *)
(* 10-second timeout of the token exchange.  (A held token is reused only  *)
(* while now < tokenExpiry, which the 60-second margin puts before the     *)
(* provider's deadline; a token just fetched is sent at once, however      *)
(* short its lifetime and however long its response took.)                 *)
(***************************************************************************)
C16_TokenNotElapsedUnlessShortLived ==
    [][\A c \in Callers :
          (sendsData(c) /\ call'[c].token.expiresIn * 1000 > TOKEN_TIMEOUT)
          => sendsLiveToken(c)]_vars

\* A data request sent with a held token of 360 seconds some time after
\* the token was stored.
C16_Witness ==
    \E c \in Callers :
        /\ call[c].pc = "awaitData"
        /\ call[c].nTok = 0
        /\ call[c].token = accessToken
        /\ accessToken.expiresIn * 1000 > TOKEN_TIMEOUT
        /\ call[c].sentAt >= earliestIssueOfHeld + 2 * TOKEN_TIMEOUT
        /\ call[c].sentAt < tokenExpiry

(***************************************************************************)
(* C17.  Cache keys never collide: a cache hit only ever returns a payload *)
(* that was received in response to a request with exactly the endpoint    *)
(* and exactly the query of the call it answers.                           *)
(***************************************************************************)
C17_KeysNeverCollide ==
    [][\A c \in Callers :
          (begins(c) /\ call'[c].cached)
          => LET k == getCacheKey(call'[c].endpoint, call'[c].query)
             IN  /\ k \in DOMAIN origin
                 /\ origin[k].endpoint = call'[c].endpoint
                 /\ origin[k].query = call'[c].query]_vars

(***************************************************************************)
(* C18.  A held token is cleared only by a 401 on a request that carried   *)
(* that same token: a 401 response to a call sent with an older token      *)
(* leaves the newer held token, and its expiry, in place.                  *)
(***************************************************************************)
C18_StaleUnauthorizedKeepsToken ==
    [][\A c \in Callers :
          (/\ call[c].pc = "awaitData"
           /\ call'[c].pc = "done"
           /\ call'[c].status = 401
           /\ accessToken # NoToken
           /\ call[c].token # accessToken)
          => UNCHANGED <<accessToken, tokenExpiry>>]_vars

(***************************************************************************)
(* C19.  clearCache() invalidates the requests in flight: the response to  *)
(* a data request that was sent before clearCache() and arrives after it   *)
(* is not stored.                                                          *)
(***************************************************************************)
C19_ClearInvalidatesInFlight ==
    [][\A c \in Callers :
          (/\ call[c].pc = "awaitData"
           /\ call[c].overtaken
           /\ call'[c].pc = "done"
           /\ call'[c].kind = "ok")
          => UNCHANGED requestCache]_vars

\* This step is clearCache().
clears ==
    /\ cleared' = cleared \cup DOMAIN requestCache
    /\ requestCache' = EmptyMap

\* This step is the successful data response of caller c: the entry of its
\* key is set, every other entry is as it was.
stores(c) ==
    /\ call[c].pc = "awaitData"
    /\ call'[c].pc = "done"
    /\ call'[c].kind = "ok"
    /\ DOMAIN requestCache' = DOMAIN requestCache \cup {keyOf(c)}
    /\ \A k \in DOMAIN requestCache \ {keyOf(c)} :
          requestCache'[k] = requestCache[k]

(***************************************************************************)
(* C20.  Cache entries are removed only by clearCache(): in any other step *)
(* the set of keys getCacheStats() reports does not shrink; an expired     *)
(* entry stays in the map and is counted in size until a successful        *)
(* response for its key overwrites it; and every step other than a         *)
(* successful data response or clearCache() (a cache hit, a miss on an     *)
(* expired entry, a failed request, a validation failure, a token          *)
(* exchange, the passing of time) leaves the cache unchanged.              *)
(***************************************************************************)
C20_OnlyClearRemoves ==
    [][/\ ~(getCacheStats.keys \subseteq getCacheStats'.keys) => clears
       /\ requestCache' # requestCache
             => clears \/ \E c \in Callers : stores(c)
       /\ getCacheStats'.size = Cardinality(DOMAIN requestCache')]_vars

\* A call has missed on an expired entry and is on the network; the entry
\* is still in the map and counted.
C20_Witness ==
    \E c \in Callers :
        /\ inFlight(c)
        /\ keyOf(c) \in getCacheStats.keys
        /\ now - requestCache[keyOf(c)].timestamp >= CACHE_DURATION
        /\ getCacheStats.size >= 1

=============================================================================
